---- MODULE Spec2Model ----
(***************************************************************************)
(* Quantization helpers of aten/src/ATen/native/quantized/cpu/             *)
(* qnnpack_utils.h: QuantizeUint8, activationLimits,                       *)
(* generate_requantization_scales and make_zero_points_and_scales_tensor.  *)
(*                                                                         *)
(* A float is a record [k, m, e]: k = "fin" stands for the real number     *)
(* m * 2^e with |m| < 2^24 (the float32 significand), "inf" for an         *)
(* infinity of sign m and "nan" for a NaN.  Finite floats are kept in      *)
(* normal form (m odd, or m = 0 and e = 0) so that equality of records is  *)
(* equality of floats.  The exponent range of float32 is never reached by  *)
(* the inputs drawn below; the sign of a zero is not kept.                 *)
(***************************************************************************)
EXTENDS Integers, Sequences, FiniteSets

VARIABLES
    scale, zero_point, value, Ac,   \* arguments of QuantizeUint8 / activationLimits
    quantized,                      \* <<>> or <<the uint8_t QuantizeUint8 returned>>
    limits,                         \* <<>> or <<the pair activationLimits returned>>
    weight_scales, input_scale, output_scale,
                                    \* arguments of generate_requantization_scales
    requant_scales,                 \* <<>> or <<the vector it returned>>
    weight_contig,                  \* argument of make_zero_points_and_scales_tensor
    zp_scales                       \* the pairs its successive calls returned

vars == <<scale, zero_point, value, Ac, quantized, limits,
          weight_scales, input_scale, output_scale, requant_scales,
          weight_contig, zp_scales>>

-----------------------------------------------------------------------------
(* Integers and float32 *)

MantBits == 24
INT32_MAX == 2147483647
INT32_MIN == -INT32_MAX - 1
UINT8_MIN == 0
UINT8_MAX == 255

Abs(x) == IF x < 0 THEN -x ELSE x
Sign(x) == IF x < 0 THEN -1 ELSE 1

RECURSIVE Pow2(_)
Pow2(n) == IF n = 0 THEN 1 ELSE 2 * Pow2(n - 1)

RECURSIVE BitLen(_)
BitLen(n) == IF n = 0 THEN 0 ELSE 1 + BitLen(n \div 2)

NaN == [k |-> "nan", m |-> 0, e |-> 0]
Inf(s) == [k |-> "inf", m |-> s, e |-> 0]

RECURSIVE Float(_, _)
Float(m, e) ==
    IF m = 0 THEN [k |-> "fin", m |-> 0, e |-> 0]
    ELSE IF m % 2 = 0 THEN Float(m \div 2, e + 1)
    ELSE [k |-> "fin", m |-> m, e |-> e]

IsZero(x) == x.k = "fin" /\ x.m = 0

\* The float nearest to M * 2^e for an integer M >= 0, ties to the even
\* significand (the rounding of every float32 operation).
RoundSig(M, e) ==
    LET s == BitLen(M) - MantBits IN
    IF s <= 0 THEN Float(M, e)
    ELSE LET p == Pow2(s)
             q == M \div p
             r == M % p
             up == 2 * r > p \/ (2 * r = p /\ q % 2 = 1)
         IN  Float(IF up THEN q + 1 ELSE q, e + s)

\* Long division of a remainder r < B: quotient bits are produced until the
\* quotient is exact or has MantBits bits; n counts the fraction bits.
RECURSIVE DivBits(_, _, _, _)
DivBits(q, r, B, n) ==
    IF r = 0 \/ q >= Pow2(MantBits - 1) THEN <<q, r, n>>
    ELSE IF 2 * r >= B THEN DivBits(2 * q + 1, 2 * r - B, B, n + 1)
    ELSE DivBits(2 * q, 2 * r, B, n + 1)

\* a / b in float32
FDiv(a, b) ==
    IF a.k = "nan" \/ b.k = "nan" THEN NaN
    ELSE IF a.k = "inf" THEN (IF b.k = "inf" THEN NaN ELSE Inf(a.m * Sign(b.m)))
    ELSE IF b.k = "inf" THEN Float(0, 0)
    ELSE IF IsZero(b) THEN (IF IsZero(a) THEN NaN ELSE Inf(Sign(a.m)))
    ELSE LET A == Abs(a.m)
             B == Abs(b.m)
             d == DivBits(A \div B, A % B, B, 0)
             q == d[1]
             r == d[2]
             up == 2 * r > B \/ (2 * r = B /\ q % 2 = 1)
             s == Sign(a.m) * Sign(b.m)
         IN  Float(s * (IF up THEN q + 1 ELSE q), a.e - b.e - d[3])

\* a * b in float32
FMul(a, b) ==
    IF a.k = "nan" \/ b.k = "nan" THEN NaN
    ELSE IF a.k = "inf" \/ b.k = "inf"
         THEN (IF IsZero(a) \/ IsZero(b) THEN NaN ELSE Inf(Sign(a.m) * Sign(b.m)))
    ELSE LET p == RoundSig(Abs(a.m) * Abs(b.m), a.e + b.e)
         IN  Float(Sign(a.m) * Sign(b.m) * p.m, p.e)

-----------------------------------------------------------------------------
(* Round and QuantizeUint8 *)

\* std::nearbyint in the default rounding mode: the nearest integer, a tie
\* going to the even one.
Round(x) ==
    IF x.k # "fin" \/ x.e >= 0 THEN x
    ELSE IF -x.e > MantBits THEN Float(0, 0)
    ELSE LET p == Pow2(-x.e)
             A == Abs(x.m)
             q == A \div p
             r == A % p
             up == 2 * r > p \/ (2 * r = p /\ q % 2 = 1)
         IN  Float(Sign(x.m) * (IF up THEN q + 1 ELSE q), 0)

RECURSIVE Shl(_, _)
Shl(m, n) == IF n = 0 THEN m ELSE Shl(2 * m, n - 1)

\* x truncated toward zero lies in [-2^31, 2^31 - 1]
FitsInt32(x) ==
    /\ x.k = "fin"
    /\ \/ x.e < 0
       \/ x.m = 0
       \/ BitLen(Abs(x.m)) + x.e <= 31
       \/ (x.m = -1 /\ x.e = 31)

\* static_cast<int32_t>(x): the value truncated toward zero when it fits.
\* When it does not fit (or x is an infinity or a NaN) the conversion is
\* undefined: a build that converts with cvttss2si yields INT32_MIN, one
\* that converts with a saturating instruction yields the nearest bound
\* (0 for a NaN).
StaticCastInt32(x) ==
    IF FitsInt32(x)
    THEN IF x.e >= 0 THEN {Shl(x.m, x.e)}
         ELSE IF -x.e > MantBits THEN {0}
         ELSE {Sign(x.m) * (Abs(x.m) \div Pow2(-x.e))}
    ELSE {INT32_MIN,
          IF x.k = "nan" THEN 0 ELSE IF x.m > 0 THEN INT32_MAX ELSE INT32_MIN}

\* a + b on int32_t.  A sum that does not fit is undefined: a build that
\* adds in a 32-bit register wraps, one that keeps the sum in a wider
\* register compares the true sum, which clamps like the nearest bound.
AddInt32(a, b) ==
    IF a > 0 /\ b > INT32_MAX - a
    THEN {(a + INT32_MIN) + (b + INT32_MIN), INT32_MAX}
    ELSE IF a < 0 /\ b < INT32_MIN - a
    THEN {(a - INT32_MIN) + (b - INT32_MIN), INT32_MIN}
    ELSE {a + b}

Max(a, b) == IF a < b THEN b ELSE a
Min(a, b) == IF b < a THEN b ELSE a

qmin == UINT8_MIN
qmax == UINT8_MAX

\* static_cast<uint8_t>(r)
CastUint8(r) == r % (UINT8_MAX + 1)

\* The codes QuantizeUint8(scale, zero_point, value) can return.
QuantizeUint8(s, zp, v) ==
    { CastUint8(Min(Max(r, qmin), qmax)) :
        r \in UNION { AddInt32(zp, c) : c \in StaticCastInt32(Round(FDiv(v, s))) } }

activationLimits_ReluIgnored(s, zp, ac) == {<<UINT8_MIN, UINT8_MAX>>}
\* The pairs activationLimits(scale, zero_point, Ac) can return; Ac is one
\* of the two enumerators, the default case being unreachable.
activationLimits(s, zp, ac) ==
    IF ac = "NONE" THEN {<<UINT8_MIN, UINT8_MAX>>}
    ELSE {<<q, UINT8_MAX>> : q \in QuantizeUint8(s, zp, Float(0, 0))}

Activation == {"NONE", "RELU"}

-----------------------------------------------------------------------------
(* Inputs *)

MaxChannels == 4        \* largest leading dimension of a per-tensor weight
MaxPerChannel == 2      \* largest length of a vector of per-channel values

Zero == Float(0, 0)
One == Float(1, 0)
Tenth == Float(13421773, -27)       \* 0.1f
Huge(s) == Float(s, 40)             \* +-2^40: no quotient by a scale below fits int32_t

Scales == {Float(-1, 0), Zero, Float(1, -1), One, Float(3, 0), Tenth}
Values == {Zero, Float(1, -1), Float(3, -1), Float(5, -1), Float(-1, -1),
           Float(-3, -1), One, Float(3, 0), Float(511, -1), Float(-300, 0),
           Float(300, 0), Huge(1), Huge(-1)}
ZeroPoints == {0, 10, 50, 255, -5, INT32_MAX, INT32_MIN}

IdleQuantize ==
    /\ scale = One /\ zero_point = 0 /\ value = Zero /\ Ac = "NONE"
    /\ quantized = <<>> /\ limits = <<>>
IdleRequant ==
    /\ weight_scales = <<>> /\ input_scale = One /\ output_scale = One
    /\ requant_scales = <<>>
IdleExtract ==
    /\ weight_contig = <<>> /\ zp_scales = <<>>

-----------------------------------------------------------------------------
(* QuantizeUint8 and activationLimits applied to drawn arguments *)

InitQuantize ==
    /\ scale \in Scales
    /\ zero_point \in ZeroPoints
    /\ value \in Values
    /\ Ac \in Activation
    /\ quantized = <<>>
    /\ limits = <<>>
    /\ IdleRequant
    /\ IdleExtract

CallQuantizeUint8 ==
    /\ \E q \in QuantizeUint8(scale, zero_point, value) : quantized' = <<q>>
    /\ UNCHANGED <<scale, zero_point, value, Ac, limits, weight_scales,
                   input_scale, output_scale, requant_scales, weight_contig,
                   zp_scales>>

CallActivationLimits ==
    /\ \E p \in activationLimits(scale, zero_point, Ac) : limits' = <<p>>
    /\ UNCHANGED <<scale, zero_point, value, Ac, quantized, weight_scales,
                   input_scale, output_scale, requant_scales, weight_contig,
                   zp_scales>>

NextQuantize == CallQuantizeUint8 \/ CallActivationLimits

SpecQuantize == InitQuantize /\ [][NextQuantize]_vars

-----------------------------------------------------------------------------
(* generate_requantization_scales *)

RequantEntry_DivisionFirst(w, is, os) == FMul(FDiv(w, os), is)
\* weight_scales_data[i] * input_scale / output_scale
RequantEntry(w, is, os) == FDiv(FMul(w, is), os)

\* the loop over i = 0 .. num_output_channels - 1
RECURSIVE RequantLoop(_, _, _, _, _)
RequantLoop(req, ws, is, os, i) ==
    IF i > Len(ws) THEN req
    ELSE RequantLoop([req EXCEPT ![i] = RequantEntry(ws[i], is, os)],
                     ws, is, os, i + 1)

\* requant_scales(num_output_channels, 1.f), then the loop
generate_requantization_scales(ws, is, os) ==
    RequantLoop([i \in 1..Len(ws) |-> One], ws, is, os, 1)

SeqsUpTo(S, n) == UNION {[1..k -> S] : k \in 0..n}

WeightScaleValues == {One, Float(2, 0), Float(1, -1), Float(5, 0), Tenth}
InputScales == {Float(1, -1), One, Float(5, 0)}
OutputScales == {Float(1, -2), One, Float(3, 0), Float(7, 0), Zero, Float(-1, 0)}

InitRequant ==
    /\ weight_scales \in SeqsUpTo(WeightScaleValues, MaxPerChannel)
    /\ input_scale \in InputScales
    /\ output_scale \in OutputScales
    /\ requant_scales = <<>>
    /\ IdleQuantize
    /\ IdleExtract

CallGenerateRequantizationScales ==
    /\ requant_scales' =
           <<generate_requantization_scales(weight_scales, input_scale, output_scale)>>
    /\ UNCHANGED <<scale, zero_point, value, Ac, quantized, limits, weight_scales,
                   input_scale, output_scale, weight_contig, zp_scales>>

NextRequant == CallGenerateRequantizationScales

SpecRequant == InitRequant /\ [][NextRequant]_vars

-----------------------------------------------------------------------------
(* make_zero_points_and_scales_tensor *)

\* A quantized weight tensor as its accessors show it: qscheme(), size(0),
\* q_scale(), q_zero_point(), q_per_channel_scales(),
\* q_per_channel_zero_points().
Tensor(scheme, n, sc, zp, pcs, pczp) ==
    [qscheme |-> scheme, size0 |-> n, q_scale |-> sc, q_zero_point |-> zp,
     q_per_channel_scales |-> pcs, q_per_channel_zero_points |-> pczp]

TensorScales == {Float(1, -1), Tenth, Float(13421773, -26)}   \* 0.5f, 0.1f, 0.2f
TensorZeroPoints == {-128, -3, 0, 5, 10, 127, 128, 200, 255}
ChannelZeroPoints == {-3, 5, 127, 200}
OtherSchemes == {"PerTensorSymmetric", "PerChannelSymmetric"}

PerTensorWeights ==
    {Tensor("PerTensorAffine", n, sc, zp, <<>>, <<>>) :
        n \in 0..MaxChannels, sc \in TensorScales, zp \in TensorZeroPoints}
PerChannelWeights ==
    UNION {{Tensor("PerChannelAffine", n, Zero, 0, pcs, pczp) :
                pcs \in [1..n -> TensorScales], pczp \in [1..n -> ChannelZeroPoints]} :
           n \in 0..MaxPerChannel}
OtherWeights ==
    {Tensor(q, n, Zero, 0, <<>>, <<>>) : q \in OtherSchemes, n \in 0..MaxPerChannel}

\* What a read of memory that at::native::empty_cpu allocated and nothing
\* wrote can yield.
UninitBytes == {0, 171}
UninitFloats == {Zero, NaN}

AdjustZeroPoint_Saturating(zp) == Min(zp + 128, UINT8_MAX)
\* (uint8_t)(zero point + 128)
AdjustZeroPoint(zp) == CastUint8(zp + 128)

WeightZp_NoOffset(w) ==
    IF w.qscheme = "PerTensorAffine"
    THEN {[i \in 1..w.size0 |-> CastUint8(w.q_zero_point)]}
    ELSE IF w.qscheme = "PerChannelAffine"
    THEN {[i \in 1..w.size0 |-> AdjustZeroPoint(w.q_per_channel_zero_points[i])]}
    ELSE [1..w.size0 -> UninitBytes]
\* The contents weight_zp can have at the return.
WeightZp(w) ==
    IF w.qscheme = "PerTensorAffine"
    THEN {[i \in 1..w.size0 |-> AdjustZeroPoint(w.q_zero_point)]}
    ELSE IF w.qscheme = "PerChannelAffine"
    THEN {[i \in 1..w.size0 |-> AdjustZeroPoint(w.q_per_channel_zero_points[i])]}
    ELSE [1..w.size0 -> UninitBytes]

\* The contents weight_scales can have at the return.
WeightScales(w) ==
    IF w.qscheme = "PerTensorAffine"
    THEN {[i \in 1..w.size0 |-> w.q_scale]}
    ELSE IF w.qscheme = "PerChannelAffine"
    THEN {[i \in 1..w.size0 |-> w.q_per_channel_scales[i]]}
    ELSE [1..w.size0 -> UninitFloats]

\* The pairs make_zero_points_and_scales_tensor(weight_contig) can return.
make_zero_points_and_scales_tensor(w) ==
    {[weight_zp |-> z, weight_scales |-> sc] : z \in WeightZp(w), sc \in WeightScales(w)}

InitExtract ==
    /\ weight_contig \in PerTensorWeights \cup PerChannelWeights \cup OtherWeights
    /\ zp_scales = <<>>
    /\ IdleQuantize
    /\ IdleRequant

\* zp_scales keeps what the last two calls returned
CallMakeZeroPointsAndScalesTensor ==
    /\ \E r \in make_zero_points_and_scales_tensor(weight_contig) :
           zp_scales' = IF Len(zp_scales) < 2 THEN Append(zp_scales, r)
                        ELSE <<zp_scales[2], r>>
    /\ UNCHANGED <<scale, zero_point, value, Ac, quantized, limits, weight_scales,
                   input_scale, output_scale, requant_scales, weight_contig>>

NextExtract == CallMakeZeroPointsAndScalesTensor

SpecExtract == InitExtract /\ [][NextExtract]_vars

-----------------------------------------------------------------------------
(* The exact arithmetic the claims are stated in *)

\* n further quotient bits of the long division by B
RECURSIVE LongDiv(_, _, _, _)
LongDiv(q, r, B, n) ==
    IF n = 0 THEN <<q, r>>
    ELSE IF 2 * r >= B THEN LongDiv(2 * q + 1, 2 * r - B, B, n - 1)
    ELSE LongDiv(2 * q, 2 * r, B, n - 1)

\* The exact quotient v / s of two finite floats, s # 0: its sign, and of its
\* magnitude the integer part fl, whether the fraction is zero, and how
\* twice the fraction compares with one (half = -1, 0, 1).  A magnitude of
\* 2^33 or more is only marked big; the inputs drawn give no quotient between
\* 2^31 and 2^33.
ExactQuot(v, s) ==
    LET A == Abs(v.m)
        B == Abs(s.m)
        d == v.e - s.e
        sg == Sign(v.m) * Sign(s.m)
        Cmp(x, y) == IF x < y THEN -1 ELSE IF x = y THEN 0 ELSE 1
    IN  IF A = 0 THEN [sign |-> 1, big |-> FALSE, fl |-> 0, whole |-> TRUE, half |-> -1]
        ELSE IF d >= 0 /\ BitLen(A) + d - BitLen(B) > 33
        THEN [sign |-> sg, big |-> TRUE, fl |-> 0, whole |-> TRUE, half |-> -1]
        ELSE IF d >= 0
        THEN LET qr == LongDiv(A \div B, A % B, B, d)
             IN  [sign |-> sg, big |-> FALSE, fl |-> qr[1], whole |-> qr[2] = 0,
                  half |-> Cmp(2 * qr[2], B)]
        ELSE IF BitLen(B) - d > 30
        THEN [sign |-> sg, big |-> FALSE, fl |-> 0, whole |-> FALSE, half |-> -1]
        ELSE LET D == B * Pow2(-d)
             IN  [sign |-> sg, big |-> FALSE, fl |-> A \div D, whole |-> A % D = 0,
                  half |-> Cmp(2 * (A % D), D)]

\* |Q| > K for an integer K >= 0
MagnitudeAbove(Q, K) == Q.big \/ Q.fl > K \/ (Q.fl = K /\ ~Q.whole)

\* Q rounded to the nearest integer, an exact tie to the even one (Q not big)
RoundHalfToEven(Q) ==
    Q.sign * (IF Q.half = 1 \/ (Q.half = 0 /\ Q.fl % 2 = 1) THEN Q.fl + 1 ELSE Q.fl)

Clamp(n) == IF n < 0 THEN 0 ELSE IF n > 255 THEN 255 ELSE n

\* clamp(zp + n, 0, 255) of the unbounded sum of two int32 values
ClampSum(zp, n) ==
    IF zp > 0 /\ n > 0 THEN (IF zp > 255 \/ n > 255 THEN 255 ELSE Clamp(zp + n))
    ELSE IF zp < 0 /\ n < 0 THEN 0
    ELSE Clamp(zp + n)

\* clamp(zp + RoundHalfToEven(v / s), 0, 255) in unbounded arithmetic
ExactQuantize(s, zp, v) ==
    LET Q == ExactQuot(v, s)
    IN  IF Q.big THEN (IF Q.sign > 0 THEN 255 ELSE 0)
        ELSE ClampSum(zp, RoundHalfToEven(Q))

Positive(x) == (x.k = "fin" /\ x.m > 0) \/ (x.k = "inf" /\ x.m > 0)

-----------------------------------------------------------------------------
(* Properties of QuantizeUint8 and activationLimits *)

\* C1: for every scale > 0, zero_point in [0,255] and value, the code
\* QuantizeUint8 returns lies in [0,255], is 255 when
\* zero_point + value/scale > 255 and is 0 when zero_point + value/scale < 0.
C1_QuantizeSaturates ==
    (quantized # <<>> /\ Positive(scale) /\ scale.k = "fin" /\ zero_point \in 0..255) =>
        LET Q == ExactQuot(value, scale)
        IN  /\ quantized[1] \in 0..255
            /\ (Q.sign > 0 /\ MagnitudeAbove(Q, 255 - zero_point)) => quantized[1] = 255
            /\ (Q.sign < 0 /\ MagnitudeAbove(Q, zero_point)) => quantized[1] = 0

\* C2: for every scale > 0, QuantizeUint8(scale, zero_point, value) is
\* clamp(zero_point + RoundHalfToEven(value / scale), 0, 255).
C2_QuantizeRoundsHalfToEven ==
    (quantized # <<>> /\ Positive(scale) /\ scale.k = "fin") =>
        quantized[1] = ExactQuantize(scale, zero_point, value)

\* C10: for every int32 zero_point and every value / scale whose rounded
\* quotient fits int32, the returned code is the clamp to [0,255] of the
\* unbounded sum zero_point + round(value / scale).
C10_SumDoesNotOverflow ==
    (quantized # <<>> /\ scale.k = "fin" /\ ~IsZero(scale)
        /\ ~ExactQuot(value, scale).big) =>
        quantized[1] = ClampSum(zero_point, RoundHalfToEven(ExactQuot(value, scale)))

\* Where no conversion and no sum leaves int32 the code is the clamped,
\* half-to-even rounded sum (the part of C1, C2 and C10 the code keeps).
NoOverflow ==
    /\ scale.k = "fin" /\ ~IsZero(scale)
    /\ ~ExactQuot(value, scale).big
    /\ LET n == RoundHalfToEven(ExactQuot(value, scale))
       IN  ~(zero_point > 0 /\ n > INT32_MAX - zero_point)
           /\ ~(zero_point < 0 /\ n < INT32_MIN - zero_point)
QuantizeWhereDefined ==
    (quantized # <<>> /\ NoOverflow) =>
        quantized[1] = ExactQuantize(scale, zero_point, value)

\* C6: activationLimits returns (0, 255) for NONE whatever the scale and
\* zero-point, and (QuantizeUint8(scale, zero_point, 0.0), 255) for RELU,
\* which is (clamp(zero_point), 255) for a scale that is not zero and
\* (50, 255) for scale 0.1 and zero-point 50; always min <= max.
C6_ActivationLimits ==
    limits # <<>> =>
        LET lo == limits[1][1]
            hi == limits[1][2]
        IN  /\ lo <= hi
            /\ Ac = "NONE" => (lo = 0 /\ hi = 255)
            /\ Ac = "RELU" =>
                  /\ hi = 255
                  /\ lo \in QuantizeUint8(scale, zero_point, Zero)
                  /\ (scale.k = "fin" /\ ~IsZero(scale)) => lo = Clamp(zero_point)
                  /\ (scale = Tenth /\ zero_point = 50) => lo = 50
C6_Witness ==
    /\ limits = <<<<50, 255>>>>
    /\ Ac = "RELU" /\ scale = Tenth /\ zero_point = 50

\* C8: a zero or negative scale given to QuantizeUint8, or output_scale given
\* to generate_requantization_scales, is rejected: the call returns no code
\* and no multipliers.
C8_BadScaleRejected ==
    /\ ~Positive(scale) => quantized = <<>>
    /\ ~Positive(output_scale) => requant_scales = <<>>

-----------------------------------------------------------------------------
(* Properties of generate_requantization_scales *)

\* C5: the returned vector has the length of weight_scales and its entry i is
\* weight_scales[i] * input_scale / output_scale, the product formed first;
\* [1.0, 2.0] with input scale 0.5 and output scale 0.25 give [2.0, 4.0].
C5_RequantizationFormula ==
    requant_scales # <<>> =>
        LET r == requant_scales[1]
        IN  /\ Len(r) = Len(weight_scales)
            /\ \A i \in 1..Len(weight_scales) :
                   r[i] = FDiv(FMul(weight_scales[i], input_scale), output_scale)
            /\ (/\ weight_scales = <<One, Float(2, 0)>>
                /\ input_scale = Float(1, -1)
                /\ output_scale = Float(1, -2)) => r = <<Float(2, 0), Float(4, 0)>>
C5_Witness ==
    /\ weight_scales = <<One, Float(2, 0)>>
    /\ input_scale = Float(1, -1)
    /\ output_scale = Float(1, -2)
    /\ requant_scales = <<<<Float(2, 0), Float(4, 0)>>>>

-----------------------------------------------------------------------------
(* Properties of make_zero_points_and_scales_tensor *)

\* C3: for a per-tensor-affine weight with C output channels both returned
\* sequences have length C, and every channel has
\* zp = (zero_point + 128) mod 256 and scale = the weight's scale; scale 0.5,
\* zero_point 10 and C = 4 give zp = [138,138,138,138], scale = [0.5 x 4].
C3_PerTensorReplication ==
    weight_contig.qscheme = "PerTensorAffine" =>
        \A n \in 1..Len(zp_scales) :
            LET r == zp_scales[n]
                w == weight_contig
            IN  /\ Len(r.weight_zp) = w.size0
                /\ Len(r.weight_scales) = w.size0
                /\ \A i \in 1..w.size0 :
                       /\ r.weight_zp[i] = (w.q_zero_point + 128) % 256
                       /\ r.weight_scales[i] = w.q_scale
                /\ (w.q_zero_point = 10 /\ w.q_scale = Float(1, -1) /\ w.size0 = 4) =>
                       /\ r.weight_zp = <<138, 138, 138, 138>>
                       /\ r.weight_scales = [i \in 1..4 |-> Float(1, -1)]
C3_Witness ==
    /\ weight_contig = Tensor("PerTensorAffine", 4, Float(1, -1), 10, <<>>, <<>>)
    /\ zp_scales = <<[weight_zp |-> <<138, 138, 138, 138>>,
                      weight_scales |-> [i \in 1..4 |-> Float(1, -1)]]>>

\* C4: for a per-channel-affine weight every channel i has
\* zp[i] = (per_channel_zero_point[i] + 128) mod 256, wrapped and never
\* saturated (-3 gives 125, 200 gives 72), and scale[i] = per_channel_scale[i].
C4_PerChannelFidelity ==
    weight_contig.qscheme = "PerChannelAffine" =>
        \A n \in 1..Len(zp_scales) :
            LET r == zp_scales[n]
                w == weight_contig
            IN  /\ Len(r.weight_zp) = w.size0
                /\ Len(r.weight_scales) = w.size0
                /\ \A i \in 1..w.size0 :
                       /\ r.weight_zp[i] = (w.q_per_channel_zero_points[i] + 128) % 256
                       /\ r.weight_scales[i] = w.q_per_channel_scales[i]
                       /\ w.q_per_channel_zero_points[i] = -3 => r.weight_zp[i] = 125
                       /\ w.q_per_channel_zero_points[i] = 200 => r.weight_zp[i] = 72
C4_Witness ==
    /\ weight_contig = Tensor("PerChannelAffine", 2, Zero, 0,
                              <<Tenth, Float(1, -1)>>, <<200, -3>>)
    /\ zp_scales = <<[weight_zp |-> <<72, 125>>,
                      weight_scales |-> <<Tenth, Float(1, -1)>>]>>

\* C7: for a weight whose scheme is neither per-tensor affine nor per-channel
\* affine the call fails and returns no sequences.
C7_OtherSchemeFails ==
    weight_contig.qscheme \notin {"PerTensorAffine", "PerChannelAffine"} =>
        zp_scales = <<>>

\* C9: a call leaves the weight tensor unchanged, and two calls on the same
\* tensor return the same sequences, whatever the scheme.
C9_Idempotent ==
    [][/\ weight_contig' = weight_contig
       /\ Len(zp_scales') = 2 => zp_scales'[1] = zp_scales'[2]]_vars

====
